---- MODULE Spec2Model ----
(***************************************************************************)
(* Model of the hydrogen production calculator (src/src/App.js): the       *)
(* component's state (useState cells), its event handlers and the three    *)
(* calculations: calculateProduction, calculateReverse, generateGraphData. *)
(*                                                                         *)
(* JavaScript numbers are modelled as exact rationals in sign/magnitude    *)
(* form together with the IEEE-754 special values NaN, +Infinity,          *)
(* -Infinity and the signed zero, so that division by zero, 0/0 and        *)
(* arithmetic on `undefined` behave as they do in the engine.  Rounding of *)
(* finite intermediate results to 53 bits is not modelled.                 *)
(***************************************************************************)
EXTENDS Integers, Sequences, FiniteSets, TLC

VARIABLES
    activeTab,          \* useState('production'), line 17
    productionInputs,   \* useState({...}), lines 20-27
    reverseInputs,      \* useState({...}), lines 29-33
    productionResults,  \* useState(null), line 36
    reverseResults,     \* useState(null), line 37
    chartData,          \* the data prop of LineChart at the latest render, line 295
    last,               \* history: the latest calculation, its input record and its output
    snap                \* history: one earlier calculation, chosen arbitrarily

vars == <<activeTab, productionInputs, reverseInputs, productionResults,
          reverseResults, chartData, last, snap>>

(***************************************************************************)
(* JavaScript numbers.                                                     *)
(***************************************************************************)
RECURSIVE GCD(_, _)
GCD(a, b) == IF b = 0 THEN a ELSE GCD(b, a % b)

\* The finite number s * n / d in lowest terms; n = 0 keeps its sign (-0).
Fin(s, n, d) ==
    LET g == GCD(n, d) IN [k |-> "fin", s |-> s, n |-> n \div g, d |-> d \div g]

NaN == [k |-> "nan", s |-> 1, n |-> 0, d |-> 1]

Inf(s) == [k |-> "inf", s |-> s, n |-> 0, d |-> 1]

\* The value `undefined` (a missing property).
Undefined == [k |-> "undefined", s |-> 1, n |-> 0, d |-> 1]

\* An integer literal.
Num(i) == IF i < 0 THEN Fin(-1, -i, 1) ELSE Fin(1, i, 1)

\* A decimal literal n / d, n >= 0.
Dec(n, d) == Fin(1, n, d)

\* ToNumber: undefined becomes NaN.
ToNumber(v) == IF v.k = "undefined" THEN NaN ELSE v

IsZero(x) == x.k = "fin" /\ x.n = 0

\* x * y
Mul(a, b) ==
    LET x == ToNumber(a)
        y == ToNumber(b)
        s == x.s * y.s
    IN  IF x.k = "nan" \/ y.k = "nan" THEN NaN
        ELSE IF x.k = "inf" \/ y.k = "inf"
             THEN IF IsZero(x) \/ IsZero(y) THEN NaN ELSE Inf(s)
        ELSE LET g1 == GCD(x.n, y.d)
                 g2 == GCD(y.n, x.d)
             IN  Fin(s, (x.n \div g1) * (y.n \div g2), (x.d \div g2) * (y.d \div g1))

\* x / y
Div(a, b) ==
    LET x == ToNumber(a)
        y == ToNumber(b)
        s == x.s * y.s
    IN  IF x.k = "nan" \/ y.k = "nan" THEN NaN
        ELSE IF x.k = "inf" THEN (IF y.k = "inf" THEN NaN ELSE Inf(s))
        ELSE IF y.k = "inf" THEN Fin(s, 0, 1)
        ELSE IF y.n = 0 THEN (IF x.n = 0 THEN NaN ELSE Inf(s))
        ELSE LET g1 == GCD(x.n, y.n)
                 g2 == GCD(y.d, x.d)
             IN  Fin(s, (x.n \div g1) * (y.d \div g2), (x.d \div g2) * (y.n \div g1))

\* -x
Neg(a) == LET x == ToNumber(a) IN IF x.k = "nan" THEN NaN ELSE [x EXCEPT !.s = -x.s]

\* x + y
Add(a, b) ==
    LET x == ToNumber(a)
        y == ToNumber(b)
    IN  IF x.k = "nan" \/ y.k = "nan" THEN NaN
        ELSE IF x.k = "inf"
             THEN (IF y.k = "inf" /\ y.s # x.s THEN NaN ELSE x)
        ELSE IF y.k = "inf" THEN y
        ELSE LET g == GCD(x.d, y.d)
                 v == x.s * x.n * (y.d \div g) + y.s * y.n * (x.d \div g)
                 d == (x.d \div g) * y.d
             IN  IF v = 0 THEN Fin(IF x.s = -1 /\ y.s = -1 THEN -1 ELSE 1, 0, 1)
                 ELSE IF v < 0 THEN Fin(-1, -v, d)
                 ELSE Fin(1, v, d)

\* x - y
Sub(a, b) == Add(a, Neg(b))

\* Math.abs(x)
Abs(a) == LET x == ToNumber(a) IN IF x.k = "nan" THEN NaN ELSE [x EXCEPT !.s = 1]

(***************************************************************************)
(* Conversions between text and numbers.  A text is a sequence of          *)
(* one-character strings.                                                  *)
(***************************************************************************)
DigitVal == [c \in {"0", "1", "2", "3", "4", "5", "6", "7", "8", "9"} |->
               CASE c = "0" -> 0 [] c = "1" -> 1 [] c = "2" -> 2 [] c = "3" -> 3
                 [] c = "4" -> 4 [] c = "5" -> 5 [] c = "6" -> 6 [] c = "7" -> 7
                 [] c = "8" -> 8 [] c = "9" -> 9]

\* The run of decimal digits of t from position i: its value, the position
\* after it, and its length.
RECURSIVE ScanDigits(_, _, _, _)
ScanDigits(t, i, val, count) ==
    IF i <= Len(t) /\ t[i] \in DOMAIN DigitVal
    THEN ScanDigits(t, i + 1, 10 * val + DigitVal[t[i]], count + 1)
    ELSE [val |-> val, next |-> i, count |-> count]

RECURSIVE Pow10(_)
Pow10(e) == IF e = 0 THEN 1 ELSE 10 * Pow10(e - 1)

\* parseFloat(t): the longest prefix of t that is a decimal literal (sign,
\* digits, fraction); NaN when there is none, as for the empty text of a
\* cleared number field.  Exponents are outside the texts considered.
parseFloat(t) ==
    LET signed == Len(t) >= 1 /\ t[1] \in {"-", "+"}
        s == IF Len(t) >= 1 /\ t[1] = "-" THEN -1 ELSE 1
        ip == ScanDigits(t, IF signed THEN 2 ELSE 1, 0, 0)
        dot == ip.next <= Len(t) /\ t[ip.next] = "."
        fp == IF dot THEN ScanDigits(t, ip.next + 1, 0, 0)
              ELSE [val |-> 0, next |-> ip.next, count |-> 0]
    IN  IF ip.count + fp.count = 0 THEN NaN
        ELSE Fin(s, ip.val * Pow10(fp.count) + fp.val, Pow10(fp.count))

\* The strings toFixed(2) returns: "NaN", "Infinity", "-Infinity", or a
\* decimal with two fraction digits, held as its sign and its hundredths.
StrNaN == [k |-> "NaN", neg |-> FALSE, cents |-> 0]

StrInfinity(neg) == [k |-> "Infinity", neg |-> neg, cents |-> 0]

StrDecimal(neg, cents) == [k |-> "decimal", neg |-> neg, cents |-> cents]

\* Number.prototype.toFixed(2): a non-finite number prints by name; a
\* number below zero (-0 is not) gets a "-" and is negated; the digits are
\* the integer n with n / 100 closest to x, the larger n of two.
toFixed2(a) ==
    LET x == ToNumber(a) IN
    CASE x.k = "nan" -> StrNaN
      [] x.k = "inf" -> StrInfinity(x.s = -1)
      [] OTHER -> StrDecimal(x.s = -1 /\ x.n # 0,
                             100 * (x.n \div x.d)
                               + (200 * (x.n % x.d) + x.d) \div (2 * x.d))

(***************************************************************************)
(* Constants, lines 6-14.                                                  *)
(***************************************************************************)
ENERGY_PER_KG_H2 == 55

WATER_PER_KG_H2 == Dec(9, 1000)

MAINTENANCE_FACTOR == Dec(15, 100)

ENERGY_EFFICIENCY ==
    [src \in {"solar", "wind", "grid", "nuclear"} |->
        CASE src = "solar" -> Dec(75, 100)
          [] src = "wind" -> Dec(70, 100)
          [] src = "grid" -> Dec(65, 100)
          [] src = "nuclear" -> Dec(80, 100)]

\* obj[key]: undefined for a key the object does not have.
Lookup(obj, key) == IF key \in DOMAIN obj THEN obj[key] ELSE Undefined

(***************************************************************************)
(* calculateProduction, lines 56-78.                                       *)
(***************************************************************************)
\* Mutant: the penalty centred on 25 degrees instead of 80.
tempFactor_offset(inp) ==
    Sub(Num(1), Div(Abs(Sub(inp.temperature, Num(25))), Num(200)))

tempFactor(inp) ==
    Sub(Num(1), Div(Abs(Sub(inp.temperature, Num(80))), Num(200)))

pressureFactor(inp) ==
    Sub(Num(1), Div(Abs(Sub(inp.pressure, Num(30))), Num(50)))

\* Mutant: the efficiency read from the reverse form's state.
baseEfficiency_fromReverse(inp) == Div(reverseInputs.targetEfficiency, Num(100))

baseEfficiency(inp) == Lookup(ENERGY_EFFICIENCY, inp.energySource)

actualEfficiency(inp) ==
    Mul(Mul(baseEfficiency(inp), tempFactor(inp)), pressureFactor(inp))

\* Mutant: the maintenance surcharge taken on the energy cost alone.
ProductionResultsOf_energyOnlyMaintenance(inp) ==
    LET energyRequired ==
            Div(Mul(Num(ENERGY_PER_KG_H2), inp.productionCapacity), actualEfficiency(inp))
        waterRequired == Mul(WATER_PER_KG_H2, inp.productionCapacity)
        energyCostDaily == Mul(energyRequired, inp.energyCost)
        waterCostDaily == Mul(waterRequired, inp.waterCost)
        maintenanceCost == Mul(energyCostDaily, MAINTENANCE_FACTOR)
        totalDailyCost == Add(Add(energyCostDaily, waterCostDaily), maintenanceCost)
    IN  [efficiency |-> toFixed2(Mul(actualEfficiency(inp), Num(100))),
         energyRequired |-> toFixed2(energyRequired),
         waterRequired |-> toFixed2(waterRequired),
         totalDailyCost |-> toFixed2(totalDailyCost),
         costPerKg |-> toFixed2(Div(totalDailyCost, inp.productionCapacity))]

\* The object handed to setProductionResults.
ProductionResultsOf(inp) ==
    LET energyRequired ==
            Div(Mul(Num(ENERGY_PER_KG_H2), inp.productionCapacity), actualEfficiency(inp))
        waterRequired == Mul(WATER_PER_KG_H2, inp.productionCapacity)
        energyCostDaily == Mul(energyRequired, inp.energyCost)
        waterCostDaily == Mul(waterRequired, inp.waterCost)
        maintenanceCost == Mul(Add(energyCostDaily, waterCostDaily), MAINTENANCE_FACTOR)
        totalDailyCost == Add(Add(energyCostDaily, waterCostDaily), maintenanceCost)
    IN  [efficiency |-> toFixed2(Mul(actualEfficiency(inp), Num(100))),
         energyRequired |-> toFixed2(energyRequired),
         waterRequired |-> toFixed2(waterRequired),
         totalDailyCost |-> toFixed2(totalDailyCost),
         costPerKg |-> toFixed2(Div(totalDailyCost, inp.productionCapacity))]

(***************************************************************************)
(* calculateReverse, lines 81-94.                                          *)
(***************************************************************************)
\* Mutant: the maintenance share added instead of reserved.
ReverseResultsOf_plusMaintenance(inp) ==
    LET targetEfficiencyDecimal == Div(inp.targetEfficiency, Num(100))
        requiredEnergy ==
            Div(Mul(Num(ENERGY_PER_KG_H2), inp.targetProduction), targetEfficiencyDecimal)
        requiredWater == Mul(WATER_PER_KG_H2, inp.targetProduction)
        totalDailyCost == Mul(inp.targetCost, inp.targetProduction)
        maxEnergyCost ==
            Mul(Div(totalDailyCost, requiredEnergy), Add(Num(1), MAINTENANCE_FACTOR))
    IN  [requiredEnergy |-> toFixed2(requiredEnergy),
         requiredWater |-> toFixed2(requiredWater),
         maxEnergyCost |-> toFixed2(maxEnergyCost),
         totalDailyCost |-> toFixed2(totalDailyCost)]

\* The object handed to setReverseResults.
ReverseResultsOf(inp) ==
    LET targetEfficiencyDecimal == Div(inp.targetEfficiency, Num(100))
        requiredEnergy ==
            Div(Mul(Num(ENERGY_PER_KG_H2), inp.targetProduction), targetEfficiencyDecimal)
        requiredWater == Mul(WATER_PER_KG_H2, inp.targetProduction)
        totalDailyCost == Mul(inp.targetCost, inp.targetProduction)
        maxEnergyCost ==
            Mul(Div(totalDailyCost, requiredEnergy), Sub(Num(1), MAINTENANCE_FACTOR))
    IN  [requiredEnergy |-> toFixed2(requiredEnergy),
         requiredWater |-> toFixed2(requiredWater),
         maxEnergyCost |-> toFixed2(maxEnergyCost),
         totalDailyCost |-> toFixed2(totalDailyCost)]

(***************************************************************************)
(* generateGraphData, lines 97-115.                                        *)
(***************************************************************************)
\* Mutant: the last level left out.
LoopCond_strict(production) == production < 1000

\* The loop's condition, line 99.
LoopCond(production) == production <= 1000

\* Mutant: the cost per kg stored as the total cost.
GraphPoint_perKgAsTotal(inp, production) ==
    LET energyRequired ==
            Div(Mul(Num(ENERGY_PER_KG_H2), Num(production)),
                Lookup(ENERGY_EFFICIENCY, inp.energySource))
        waterRequired == Mul(WATER_PER_KG_H2, Num(production))
        energyCost == Mul(energyRequired, inp.energyCost)
        waterCost == Mul(waterRequired, inp.waterCost)
        totalCost == Mul(Add(energyCost, waterCost), Add(Num(1), MAINTENANCE_FACTOR))
    IN  [production |-> Num(production),
         energyRequired |-> energyRequired,
         waterRequired |-> waterRequired,
         totalCost |-> Div(totalCost, Num(production)),
         costPerKg |-> Div(totalCost, Num(production))]

\* Mutant: the derated efficiency of calculateProduction used for the curve.
GraphPoint_derated(inp, production) ==
    LET energyRequired ==
            Div(Mul(Num(ENERGY_PER_KG_H2), Num(production)), actualEfficiency(inp))
        waterRequired == Mul(WATER_PER_KG_H2, Num(production))
        energyCost == Mul(energyRequired, inp.energyCost)
        waterCost == Mul(waterRequired, inp.waterCost)
        totalCost == Mul(Add(energyCost, waterCost), Add(Num(1), MAINTENANCE_FACTOR))
    IN  [production |-> Num(production),
         energyRequired |-> energyRequired,
         waterRequired |-> waterRequired,
         totalCost |-> totalCost,
         costPerKg |-> Div(totalCost, Num(production))]

\* The object pushed for one production level, lines 100-112.
GraphPoint(inp, production) ==
    LET energyRequired ==
            Div(Mul(Num(ENERGY_PER_KG_H2), Num(production)),
                Lookup(ENERGY_EFFICIENCY, inp.energySource))
        waterRequired == Mul(WATER_PER_KG_H2, Num(production))
        energyCost == Mul(energyRequired, inp.energyCost)
        waterCost == Mul(waterRequired, inp.waterCost)
        totalCost == Mul(Add(energyCost, waterCost), Add(Num(1), MAINTENANCE_FACTOR))
    IN  [production |-> Num(production),
         energyRequired |-> energyRequired,
         waterRequired |-> waterRequired,
         totalCost |-> totalCost,
         costPerKg |-> Div(totalCost, Num(production))]

RECURSIVE GraphLoop(_, _, _)
GraphLoop(inp, production, data) ==
    IF LoopCond(production)
    THEN GraphLoop(inp, production + 100, Append(data, GraphPoint(inp, production)))
    ELSE data

generateGraphData(inp) == GraphLoop(inp, 100, <<>>)

(***************************************************************************)
(* The component's state and its handlers.                                 *)
(***************************************************************************)
NoResults == [k |-> "null"]

NoCall == [op |-> "none"]

Init ==
    /\ activeTab = "production"
    /\ productionInputs =
          [energySource |-> "solar", energyCost |-> Dec(1, 10), waterCost |-> Num(2),
           productionCapacity |-> Num(500), temperature |-> Num(80),
           pressure |-> Num(30)]
    /\ reverseInputs =
          [targetProduction |-> Num(1000), targetEfficiency |-> Num(75),
           targetCost |-> Num(4)]
    /\ productionResults = NoResults
    /\ reverseResults = NoResults
    /\ chartData = <<>>
    /\ last = NoCall
    /\ snap = NoCall

\* onClick of a navigation button, lines 123-140, and the render that
\* follows: the chart, shown on the graph tab alone (line 290), is handed
\* generateGraphData() (line 295).
setActiveTab(tab) ==
    /\ activeTab' = tab
    /\ chartData' = IF tab = "graph" THEN generateGraphData(productionInputs) ELSE <<>>
    /\ last' = IF tab = "graph"
               THEN [op |-> "curve", in |-> productionInputs, out |-> chartData']
               ELSE last
    /\ UNCHANGED <<productionInputs, reverseInputs, productionResults, reverseResults>>

\* onChange of a field of the production form (shown on the production tab
\* alone, line 144); e is the event's target: its name, type and value.
handleProductionChange(e) ==
    /\ activeTab = "production"
    /\ productionInputs' =
          [productionInputs EXCEPT
              ![e.name] = IF e.type = "number" THEN parseFloat(e.value) ELSE e.value]
    /\ UNCHANGED <<activeTab, reverseInputs, productionResults, reverseResults,
                   chartData, last>>

\* onChange of a field of the reverse form (shown on the reverse tab alone,
\* line 235).
handleReverseChange(e) ==
    /\ activeTab = "reverse"
    /\ reverseInputs' = [reverseInputs EXCEPT ![e.name] = parseFloat(e.value)]
    /\ UNCHANGED <<activeTab, productionInputs, productionResults, reverseResults,
                   chartData, last>>

\* onClick of the production form's Calculate button, line 216.
calculateProduction ==
    /\ activeTab = "production"
    /\ productionResults' = ProductionResultsOf(productionInputs)
    /\ last' = [op |-> "production", in |-> productionInputs, out |-> productionResults']
    /\ UNCHANGED <<activeTab, productionInputs, reverseInputs, reverseResults, chartData>>

\* onClick of the reverse form's Calculate button, line 272.
calculateReverse ==
    /\ activeTab = "reverse"
    /\ reverseResults' = ReverseResultsOf(reverseInputs)
    /\ last' = [op |-> "reverse", in |-> reverseInputs, out |-> reverseResults']
    /\ UNCHANGED <<activeTab, productionInputs, reverseInputs, productionResults, chartData>>

(***************************************************************************)
(* The events considered.                                                  *)
(***************************************************************************)
Tabs == {"production", "reverse", "graph"}

Select(name, values) ==
    {[name |-> name, type |-> "select-one", value |-> v] : v \in values}

Number(name, texts) ==
    {[name |-> name, type |-> "number", value |-> t] : t \in texts}

\* The handler stores the value of the energy source select as it comes;
\* "coal" stands for a value that is no key of ENERGY_EFFICIENCY.
SourceEvents == Select("energySource", {"solar", "wind", "grid", "nuclear", "coal"})

\* The options the select offers, lines 156-159.
OfferedSourceEvents == Select("energySource", {"solar", "wind", "grid", "nuclear"})

ProductionNumberEvents ==
    Number("energyCost", {<<"0", ".", "1">>, <<"0">>, <<>>})
    \cup Number("waterCost", {<<"2">>, <<"0">>})
    \cup Number("productionCapacity", {<<"5", "0", "0">>, <<"0">>})
    \cup Number("temperature", {<<"8", "0">>, <<"2", "8", "0">>, <<"-", "1", "4", "0">>})
    \cup Number("pressure", {<<"3", "0">>, <<"9", "0">>})

ReverseEvents ==
    Number("targetProduction", {<<"1", "0", "0", "0">>, <<"5", "0", "0">>, <<"0">>})
    \cup Number("targetEfficiency", {<<"7", "5">>, <<"5", "0">>, <<"0">>, <<"-", "0">>, <<>>})
    \cup Number("targetCost", {<<"4">>, <<"2", ".", "5">>, <<"0">>})

CurveNumberEvents ==
    Number("energyCost", {<<"0", ".", "1">>, <<"0">>, <<>>})
    \cup Number("waterCost", {<<"2">>, <<"0">>, <<"-", "1">>})
    \cup Number("productionCapacity", {<<"5", "0", "0">>, <<"0">>})
    \cup Number("temperature", {<<"8", "0">>, <<"2", "8", "0">>})

SmallSourceEvents == Select("energySource", {"solar", "grid"})

SmallTemperatureEvents == Number("temperature", {<<"8", "0">>, <<"9", "0">>})

SmallReverseEvents == Number("targetEfficiency", {<<"7", "5">>, <<"5", "0">>})

SmallCurveEvents ==
    Number("productionCapacity", {<<"5", "0", "0">>, <<"0">>})
    \cup Number("temperature", {<<"8", "0">>, <<"9", "0">>})
    \cup Number("pressure", {<<"3", "0">>, <<"2", "5">>})

(***************************************************************************)
(* Specifications.                                                         *)
(***************************************************************************)
\* A step that makes a calculation: snap keeps the calculation it holds or
\* takes the one that was the latest before this step.
Remember == snap' \in {snap, last}

\* The whole component.
Next ==
    \/ \E tab \in Tabs \ {"graph"} : setActiveTab(tab) /\ UNCHANGED snap
    \/ setActiveTab("graph") /\ Remember
    \/ \E e \in SmallSourceEvents : handleProductionChange(e) /\ UNCHANGED snap
    \/ \E e \in SmallTemperatureEvents : handleProductionChange(e) /\ UNCHANGED snap
    \/ \E e \in SmallReverseEvents : handleReverseChange(e) /\ UNCHANGED snap
    \/ calculateProduction /\ Remember
    \/ calculateReverse /\ Remember

Spec == Init /\ [][Next]_vars

\* The production form and the graph, with snap.
NextCurveHistory ==
    \/ \E tab \in Tabs \ {"graph"} : setActiveTab(tab) /\ UNCHANGED snap
    \/ setActiveTab("graph") /\ Remember
    \/ \E e \in SmallSourceEvents : handleProductionChange(e) /\ UNCHANGED snap
    \/ \E e \in SmallCurveEvents : handleProductionChange(e) /\ UNCHANGED snap

SpecCurveHistory == Init /\ [][NextCurveHistory]_vars

\* The production form.
NextProduction ==
    \/ \E e \in SourceEvents : handleProductionChange(e) /\ UNCHANGED snap
    \/ \E e \in ProductionNumberEvents : handleProductionChange(e) /\ UNCHANGED snap
    \/ calculateProduction /\ UNCHANGED snap

SpecProduction == Init /\ [][NextProduction]_vars

\* The reverse form.
NextReverse ==
    \/ \E tab \in Tabs : setActiveTab(tab) /\ UNCHANGED snap
    \/ \E e \in ReverseEvents : handleReverseChange(e) /\ UNCHANGED snap
    \/ calculateReverse /\ UNCHANGED snap

SpecReverse == Init /\ [][NextReverse]_vars

\* The production form and the graph.
NextCurve ==
    \/ \E tab \in Tabs : setActiveTab(tab) /\ UNCHANGED snap
    \/ \E e \in SourceEvents : handleProductionChange(e) /\ UNCHANGED snap
    \/ \E e \in CurveNumberEvents : handleProductionChange(e) /\ UNCHANGED snap

SpecCurve == Init /\ [][NextCurve]_vars

\* The production form and the graph, the source chosen among the options.
NextCurveOffered ==
    \/ \E tab \in Tabs : setActiveTab(tab) /\ UNCHANGED snap
    \/ \E e \in OfferedSourceEvents : handleProductionChange(e) /\ UNCHANGED snap
    \/ \E e \in CurveNumberEvents : handleProductionChange(e) /\ UNCHANGED snap

SpecCurveOffered == Init /\ [][NextCurveOffered]_vars

(***************************************************************************)
(* Properties.                                                             *)
(***************************************************************************)
ValidSources == {"solar", "wind", "grid", "nuclear"}

DefaultProductionInputs ==
    [energySource |-> "solar", energyCost |-> Dec(1, 10), waterCost |-> Num(2),
     productionCapacity |-> Num(500), temperature |-> Num(80), pressure |-> Num(30)]

DefaultReverseInputs ==
    [targetProduction |-> Num(1000), targetEfficiency |-> Num(75), targetCost |-> Num(4)]

\* x < y (false when either is NaN; -0 and +0 are equal)
Less(a, b) ==
    LET x == ToNumber(a)
        y == ToNumber(b)
    IN  /\ x.k # "nan"
        /\ y.k # "nan"
        /\ IF x.k = "inf" THEN x.s = -1 /\ ~(y.k = "inf" /\ y.s = -1)
           ELSE IF y.k = "inf" THEN y.s = 1
           ELSE LET diff == Add(x, Neg(y)) IN diff.s = -1 /\ diff.n # 0

\* totalCost rises strictly from each point of a curve to the next.
StrictlyIncreasingCost(data) ==
    \A i \in 1..(Len(data) - 1) : Less(data[i].totalCost, data[i + 1].totalCost)

Fields(rec) == {rec[f] : f \in DOMAIN rec}

\* C1: every curve generateGraphData returns, for whatever production input,
\* holds exactly 10 points, and the production of the i-th is 100 * i: the
\* levels 100, 200, ..., 1000 in ascending order.
C1_CurveLevels ==
    /\ last.op = "curve" =>
          /\ Len(last.out) = 10
          /\ \A i \in 1..10 : last.out[i].production = Num(100 * i)
    /\ activeTab = "graph" =>
          /\ Len(chartData) = 10
          /\ \A i \in 1..10 : chartData[i].production = Num(100 * i)

\* The curve was generated for an unrecognised source and a cleared energy cost.
C1_Witness ==
    /\ activeTab = "graph"
    /\ productionInputs.energySource = "coal"
    /\ productionInputs.energyCost = NaN
    /\ Len(chartData) = 10
    /\ chartData[10].production = Num(1000)

\* C2: a production calculation made with an energy source that is none of
\* solar, wind, grid, nuclear yields no result with a NaN field.
C2_UnknownSourceRejected ==
    (last.op = "production" /\ last.in.energySource \notin ValidSources)
        => \A v \in Fields(last.out) : v.k # "NaN"

\* C3: a reverse calculation made with targetEfficiency = 0 yields no result
\* whose requiredEnergy is infinite.
C3_ZeroEfficiencyRejected ==
    (last.op = "reverse" /\ IsZero(last.in.targetEfficiency))
        => last.out.requiredEnergy.k # "Infinity"

\* C4: a production calculation made with a recognised source and inputs
\* whose actualEfficiency is zero or negative yields no result with a
\* negative or infinite energyRequired, totalDailyCost or costPerKg.
C4_DegenerateEfficiencyRejected ==
    (/\ last.op = "production"
     /\ last.in.energySource \in ValidSources
     /\ actualEfficiency(last.in).k = "fin"
     /\ ~Less(Num(0), actualEfficiency(last.in)))
        => \A v \in {last.out.energyRequired, last.out.totalDailyCost, last.out.costPerKg} :
              v.k = "decimal" /\ ~v.neg

\* C5: as stated, on every curve shown, whatever the inputs, totalCost rises
\* strictly from each production level to the next.
C5_AlwaysIncreasing == activeTab = "graph" => StrictlyIncreasingCost(chartData)

\* C5: as amended, on every curve generated for a recognised energy source, an
\* energyCost above zero and a waterCost of zero or more, totalCost rises
\* strictly from each production level to the next.
C5_IncreasingForPositiveCost ==
    (/\ activeTab = "graph"
     /\ productionInputs.energySource \in ValidSources
     /\ Less(Num(0), productionInputs.energyCost)
     /\ ~Less(productionInputs.waterCost, Num(0)))
        => /\ Len(chartData) = 10
           /\ StrictlyIncreasingCost(chartData)

\* A curve for wind at 0.1 per kWh and free water, rising from its first
\* point to its second.
C5_Witness ==
    /\ activeTab = "graph"
    /\ productionInputs.energySource = "wind"
    /\ productionInputs.energyCost = Dec(1, 10)
    /\ productionInputs.waterCost = Num(0)
    /\ Len(chartData) = 10
    /\ Less(chartData[1].totalCost, chartData[2].totalCost)

\* C6: two calculations of the same kind (production, reverse or curve) made
\* on the same input record give the same result, whatever was done before
\* or between them.
C6_NoHiddenState ==
    (snap.op # "none" /\ last.op = snap.op /\ last.in = snap.in)
        => last.out = snap.out

\* Two production calculations on the same record, with a reverse
\* calculation made and the production form edited since.
C6_Witness ==
    /\ snap.op = "production"
    /\ last.op = "production"
    /\ last.in = snap.in
    /\ last.out = snap.out
    /\ reverseResults # NoResults
    /\ productionInputs # last.in

\* C7: a production calculation stores, to 2 decimals, energyRequired =
\* 55 * capacity / actualEfficiency, waterRequired = 0.009 * capacity,
\* totalDailyCost = (energyRequired * energyCost + waterRequired * waterCost)
\* * (1 + 0.15) and costPerKg = totalDailyCost / capacity; for the default
\* inputs these are 36666.67, 4.50, 4227.02 and 8.45, with efficiency 75.00.
C7_ProductionFormula ==
    last.op = "production" =>
        LET inp == last.in
            energyRequired ==
                Div(Mul(Num(55), inp.productionCapacity), actualEfficiency(inp))
            waterRequired == Mul(Dec(9, 1000), inp.productionCapacity)
            totalDailyCost ==
                Mul(Add(Mul(energyRequired, inp.energyCost),
                        Mul(waterRequired, inp.waterCost)),
                    Add(Num(1), Dec(15, 100)))
        IN  /\ last.out.energyRequired = toFixed2(energyRequired)
            /\ last.out.waterRequired = toFixed2(waterRequired)
            /\ last.out.totalDailyCost = toFixed2(totalDailyCost)
            /\ last.out.costPerKg = toFixed2(Div(totalDailyCost, inp.productionCapacity))
            /\ inp = DefaultProductionInputs =>
                  last.out = [efficiency |-> StrDecimal(FALSE, 7500),
                              energyRequired |-> StrDecimal(FALSE, 3666667),
                              waterRequired |-> StrDecimal(FALSE, 450),
                              totalDailyCost |-> StrDecimal(FALSE, 422702),
                              costPerKg |-> StrDecimal(FALSE, 845)]

\* The production calculation on the default inputs.
C7_Witness ==
    /\ last.op = "production"
    /\ last.in = DefaultProductionInputs
    /\ productionResults.totalDailyCost = StrDecimal(FALSE, 422702)

\* x to 4 decimals, in ten-thousandths (x finite and not negative).
TenThousandths(x) == (20000 * x.n + x.d) \div (2 * x.d)

\* The spec's formula for the maximum energy cost.
C8_MaxEnergyCost(inp) ==
    LET requiredEnergy ==
            Div(Mul(Num(55), inp.targetProduction), Div(inp.targetEfficiency, Num(100)))
    IN  Mul(Div(Mul(inp.targetCost, inp.targetProduction), requiredEnergy), Dec(85, 100))

\* C8: as stated, the reverse calculation on targetProduction 1000,
\* targetEfficiency 75, targetCost 4 reports requiredEnergy 73333.33,
\* requiredWater 9.00, totalDailyCost 4000 and a maxEnergyCost within 0.0001
\* of 0.0464.
C8_ReportsFourDecimals ==
    (last.op = "reverse" /\ last.in = DefaultReverseInputs)
        => /\ last.out.requiredEnergy = StrDecimal(FALSE, 7333333)
           /\ last.out.requiredWater = StrDecimal(FALSE, 900)
           /\ last.out.totalDailyCost = StrDecimal(FALSE, 400000)
           /\ last.out.maxEnergyCost.k = "decimal"
           /\ last.out.maxEnergyCost.cents * 100 \in 463..465

\* C8: as amended, a reverse calculation stores, to 2 decimals, maxEnergyCost =
\* (targetCost * targetProduction / requiredEnergy) * (1 - 0.15) with
\* requiredEnergy = 55 * targetProduction / (targetEfficiency / 100); for
\* 1000, 75 and 4 the value computed is 0.0464 to 4 decimals and the values
\* reported are requiredEnergy 73333.33, requiredWater 9.00, totalDailyCost
\* 4000.00 and maxEnergyCost 0.05.
C8_ReverseFormula ==
    last.op = "reverse" =>
        /\ last.out.maxEnergyCost = toFixed2(C8_MaxEnergyCost(last.in))
        /\ last.in = DefaultReverseInputs =>
              /\ TenThousandths(C8_MaxEnergyCost(last.in)) = 464
              /\ last.out = [requiredEnergy |-> StrDecimal(FALSE, 7333333),
                             requiredWater |-> StrDecimal(FALSE, 900),
                             maxEnergyCost |-> StrDecimal(FALSE, 5),
                             totalDailyCost |-> StrDecimal(FALSE, 400000)]

\* The reverse calculation on the default inputs.
C8_Witness ==
    /\ last.op = "reverse"
    /\ last.in = DefaultReverseInputs
    /\ reverseResults.maxEnergyCost = StrDecimal(FALSE, 5)

\* The baseline efficiency of each source, in percent.
BaselinePercent == [src \in ValidSources |->
                 CASE src = "solar" -> 75 [] src = "wind" -> 70
                   [] src = "grid" -> 65 [] src = "nuclear" -> 80]

AtOptimum(inp) ==
    /\ inp.energySource \in ValidSources
    /\ inp.temperature = Num(80)
    /\ inp.pressure = Num(30)

\* C9: at temperature 80 and pressure 30, for each recognised source, both
\* factors are 1 and actualEfficiency is the source's baseline efficiency,
\* and a production calculation reports 75, 70, 65, 80 percent for solar,
\* wind, grid, nuclear.
C9_OptimalPoint ==
    /\ AtOptimum(productionInputs) =>
          /\ tempFactor(productionInputs) = Num(1)
          /\ pressureFactor(productionInputs) = Num(1)
          /\ actualEfficiency(productionInputs)
                = Dec(BaselinePercent[productionInputs.energySource], 100)
    /\ (last.op = "production" /\ AtOptimum(last.in)) =>
          last.out.efficiency = StrDecimal(FALSE, 100 * BaselinePercent[last.in.energySource])

\* A production calculation for nuclear at the optimal point.
C9_Witness ==
    /\ last.op = "production"
    /\ last.in.energySource = "nuclear"
    /\ AtOptimum(last.in)
    /\ productionResults.efficiency = StrDecimal(FALSE, 8000)

\* C10: two curves generated from records that agree on energySource,
\* energyCost and waterCost are the same sequence of points, and the
\* energyRequired of each point of a curve for a recognised source is
\* 55 * production / the source's baseline efficiency.
C10_NoDerating ==
    /\ (/\ snap.op = "curve"
        /\ last.op = "curve"
        /\ last.in.energySource = snap.in.energySource
        /\ last.in.energyCost = snap.in.energyCost
        /\ last.in.waterCost = snap.in.waterCost)
          => last.out = snap.out
    /\ (last.op = "curve" /\ last.in.energySource \in ValidSources) =>
          \A i \in 1..Len(last.out) :
              last.out[i].energyRequired
                = Div(Num(55 * 100 * i), Dec(BaselinePercent[last.in.energySource], 100))

\* Two curves for the same source, generated at different temperatures,
\* pressures and capacities.
C10_Witness ==
    /\ snap.op = "curve"
    /\ last.op = "curve"
    /\ last.in.energySource = snap.in.energySource
    /\ last.in.temperature # snap.in.temperature
    /\ last.in.pressure # snap.in.pressure
    /\ last.in.productionCapacity # snap.in.productionCapacity
    /\ Len(last.out) = 10
    /\ last.out = snap.out

====
